---- MODULE Spec2Model ----
(***************************************************************************)
(* Model of hp_character_appearance.py: counting the words of a vocabulary *)
(* in novel texts, building the (Novel, Character, Frequency) table,       *)
(* selecting the characters with the largest spread, ordering them by      *)
(* their maximum and dropping the absent values before plotting.           *)
(*                                                                         *)
(* A Python str is a sequence of one-character strings.  A text is the     *)
(* sequence of its whitespace-delimited chunks.  A frequency is <<k>> when *)
(* present and << >> (None / NaN) when absent.                             *)
(***************************************************************************)
EXTENDS Integers, Sequences, FiniteSets, TLC

(***************************************************************************)
(* Bounds of the model.                                                    *)
(***************************************************************************)
\* number of (path, title) pairs zipped by prepare_plot_data
MaxNovels == 2
\* chunks per text of the curated library
MaxTextLen == 2
\* largest top_n tried besides the default
MaxTopN == 2
\* characters per chunk of the exhaustive corpus, and per normalize_word input
MaxChunkLen == 3
\* chunks per text of the exhaustive corpus
MaxChunks == 1

(***************************************************************************)
(* Characters and strings.                                                 *)
(***************************************************************************)
LowerLetters ==
    << "a", "b", "c", "d", "e", "f", "g", "h", "i", "j", "k", "l", "m",
       "n", "o", "p", "q", "r", "s", "t", "u", "v", "w", "x", "y", "z" >>

UpperLetters ==
    << "A", "B", "C", "D", "E", "F", "G", "H", "I", "J", "K", "L", "M",
       "N", "O", "P", "Q", "R", "S", "T", "U", "V", "W", "X", "Y", "Z" >>

\* the characters of the model in ascending code point order
CodeOrder == << " ", "'", "." >> \o UpperLetters \o LowerLetters

Range(s) == { s[x] : x \in DOMAIN s }

Ord(c) == CHOOSE x \in DOMAIN CodeOrder : CodeOrder[x] = c

IsUpperChar(c) == c \in Range(UpperLetters)

IsLowerChar(c) == c \in Range(LowerLetters)

LowerChar(c) ==
    IF IsUpperChar(c)
    THEN LowerLetters[CHOOSE x \in DOMAIN UpperLetters : UpperLetters[x] = c]
    ELSE c

UpperChar(c) ==
    IF IsLowerChar(c)
    THEN UpperLetters[CHOOSE x \in DOMAIN LowerLetters : LowerLetters[x] = c]
    ELSE c

\* str.isalpha(): non-empty and every character a letter
isalpha(w) == Len(w) > 0 /\ \A x \in DOMAIN w : IsUpperChar(w[x]) \/ IsLowerChar(w[x])

\* str.lower()
lower(w) == [x \in DOMAIN w |-> LowerChar(w[x])]

\* str.capitalize(): first character upper-cased, the rest lower-cased
capitalize(w) == [x \in DOMAIN w |-> IF x = 1 THEN UpperChar(w[x]) ELSE LowerChar(w[x])]

\* str.strip(): leading and trailing whitespace removed
RECURSIVE strip(_)
strip(w) ==
    IF Len(w) = 0 THEN w
    ELSE IF w[1] = " " THEN strip(Tail(w))
    ELSE IF w[Len(w)] = " " THEN strip(SubSeq(w, 1, Len(w) - 1))
    ELSE w

\* Python's < on str: lexicographic by code point
StrLess(a, b) ==
    \E k \in 1..(Len(a) + 1) :
        /\ \A x \in 1..(k - 1) : x <= Len(b) /\ a[x] = b[x]
        /\ k <= Len(b)
        /\ (k > Len(a) \/ Ord(a[k]) < Ord(b[k]))

EndsWith(w, suffix) ==
    /\ Len(w) >= Len(suffix)
    /\ SubSeq(w, Len(w) - Len(suffix) + 1, Len(w)) = suffix

DropLast(w, n) == SubSeq(w, 1, Len(w) - n)

RECURSIVE Flatten(_)
Flatten(ss) == IF ss = << >> THEN << >> ELSE Head(ss) \o Flatten(Tail(ss))

(***************************************************************************)
(* normalize_word: re.sub(r"'s$", '', word) and then lower().  The pattern *)
(* is compiled without re.IGNORECASE.                                      *)
(***************************************************************************)
normalize_word_keep_case(word) ==
    IF EndsWith(word, << "'", "s" >>) THEN DropLast(word, 2) ELSE word

normalize_word(word) ==
    lower(IF EndsWith(word, << "'", "s" >>) THEN DropLast(word, 2) ELSE word)

(***************************************************************************)
(* nltk.word_tokenize over the chunks of a text: the text is cut into      *)
(* sentences after every chunk that ends in a period (no chunk of the      *)
(* model is an abbreviation or an initial), the period that ends a         *)
(* sentence becomes a token of its own, and a chunk that ends in the       *)
(* clitic 's or 'S after a character other than an apostrophe is split     *)
(* before the apostrophe.  Every apostrophe of the model's chunks is       *)
(* followed by s or S, for which the tokenizer has no other rule.          *)
(***************************************************************************)
IsSentenceEnd(text, x) == x = Len(text) \/ EndsWith(text[x], << "." >>)

SplitFinalPeriod(chunk, final) ==
    IF final /\ Len(chunk) >= 2 /\ chunk[Len(chunk)] = "." /\ chunk[Len(chunk) - 1] # "."
    THEN << DropLast(chunk, 1), << "." >> >>
    ELSE << chunk >>

SplitClitic(tok) ==
    IF /\ Len(tok) >= 3
       /\ tok[Len(tok) - 1] = "'"
       /\ tok[Len(tok)] \in {"s", "S"}
       /\ tok[Len(tok) - 2] # "'"
    THEN << DropLast(tok, 2), SubSeq(tok, Len(tok) - 1, Len(tok)) >>
    ELSE << tok >>

ChunkTokens(chunk, final) ==
    LET pieces == SplitFinalPeriod(chunk, final)
    IN  SplitClitic(pieces[1]) \o Tail(pieces)

word_tokenize(text) ==
    Flatten([x \in DOMAIN text |-> ChunkTokens(text[x], IsSentenceEnd(text, x))])

(***************************************************************************)
(* count_word_frequencies                                                  *)
(***************************************************************************)
\* Counter(seq)[w], 0 for a missing key
Counter(seq, w) == Cardinality({ x \in DOMAIN seq : seq[x] = w })

\* dict.get(key, default)
Get(d, key, default) == IF key \in DOMAIN d THEN d[key] ELSE default

KeepToken(tok) == isalpha(tok)

count_word_frequencies_raw(text, target_words) ==
    LET words == word_tokenize(text)
        kept == SelectSeq(words, KeepToken)
    IN  [word \in Range(target_words) |-> Counter(kept, word)]

count_word_frequencies(text, target_words) ==
    LET words == word_tokenize(text)
        kept == SelectSeq(words, KeepToken)
        normalized_words == [x \in DOMAIN kept |-> normalize_word(kept[x])]
    IN  [word \in Range(target_words) |-> Counter(normalized_words, word)]

(***************************************************************************)
(* load_target_words: the stripped, lower-cased, non-empty lines.          *)
(***************************************************************************)
NonEmptyLine(line) == strip(line) # << >>

load_target_words(lines) ==
    LET kept == SelectSeq(lines, NonEmptyLine)
    IN  [x \in DOMAIN kept |-> lower(strip(kept[x]))]

(***************************************************************************)
(* process_novel: the content of a file is [ok |-> TRUE, text |-> t], or   *)
(* [ok |-> FALSE, text |-> << >>] when open() or read() raises.  The       *)
(* outcome of the call is the returned mapping, or an exception that       *)
(* leaves the function, and the number of lines it has printed.            *)
(***************************************************************************)
EmptyDict == << >>

Unreadable == [ok |-> FALSE, text |-> << >>]

Readable(t) == [ok |-> TRUE, text |-> t]

Returns(v, lines) == [raised |-> FALSE, value |-> v, printed |-> lines]

Raises == [raised |-> TRUE, value |-> EmptyDict, printed |-> 0]

process_novel_no_except(content, target_words) ==
    IF ~content.ok THEN Raises
    ELSE Returns(count_word_frequencies(content.text, target_words), 0)

process_novel(content, target_words) ==
    IF ~content.ok THEN Returns(EmptyDict, 1)
    ELSE Returns(count_word_frequencies(content.text, target_words), 0)

(***************************************************************************)
(* The table: a sequence of records (Novel, Character, Frequency).  None   *)
(* is the absent frequency (None in the list of dicts, NaN in the frame).  *)
(***************************************************************************)
None == << >>

Some(k) == << k >>

IsPresent(v) == v # None

\* the body of prepare_plot_data's loop over target_words for one novel
Frequency_keep_zero(freq) == Some(freq)

Frequency(freq) == IF freq > 0 THEN Some(freq) ELSE None

NovelRecords_present_only(title, frequencies, target_words) ==
    LET present(w) == Get(frequencies, w, 0) > 0
        kept == SelectSeq(target_words, present)
    IN  [x \in DOMAIN kept |->
            [Novel     |-> title,
             Character |-> capitalize(kept[x]),
             Frequency |-> Some(Get(frequencies, kept[x], 0))]]

NovelRecords(title, frequencies, target_words) ==
    [x \in DOMAIN target_words |->
        [Novel     |-> title,
         Character |-> capitalize(target_words[x]),
         Frequency |-> Frequency(Get(frequencies, target_words[x], 0))]]

(***************************************************************************)
(* pandas: groupby('Character') sorts the group keys; max() and min() skip *)
(* NaN and give NaN for a group without a present value, also in a table   *)
(* without any present value.                                              *)
(***************************************************************************)
Max(S) == CHOOSE m \in S : \A y \in S : y <= m

Min(S) == CHOOSE m \in S : \A y \in S : m <= y

Characters(df) == { df[x].Character : x \in DOMAIN df }

RECURSIVE SortedKeys(_)
SortedKeys(S) ==
    IF S = {} THEN << >>
    ELSE LET m == CHOOSE a \in S : \A b \in S : a = b \/ StrLess(a, b)
         IN  << m >> \o SortedKeys(S \ {m})

\* the present values of one group
GroupValues(df, character) ==
    { df[x].Frequency[1] : x \in { y \in DOMAIN df :
          df[y].Character = character /\ IsPresent(df[y].Frequency) } }

\* groupby('Character')['Frequency']: the groups in the order of the sorted keys
Groups(df) ==
    LET keys == SortedKeys(Characters(df))
    IN  [x \in DOMAIN keys |->
            [Character |-> keys[x], values |-> GroupValues(df, keys[x])]]

Spread(vs) == Max(vs) - Min(vs)

calculate_change_in_frequency_zero_filled(df) ==
    LET keys == SortedKeys(Characters(df))
    IN  [x \in DOMAIN keys |->
            [Character |-> keys[x],
             value     |->
                LET all == { y \in DOMAIN df : df[y].Character = keys[x] }
                    vs  == { IF IsPresent(df[y].Frequency) THEN df[y].Frequency[1] ELSE 0
                             : y \in all }
                IN  Some(Max(vs) - Min(vs))]]

calculate_change_in_frequency(df) ==
    LET groups == Groups(df)
    IN  [x \in DOMAIN groups |->
            [Character |-> groups[x].Character,
             value     |-> IF groups[x].values = {} THEN None
                           ELSE Some(Spread(groups[x].values))]]

\* a stable sort of a series by value, descending (mergesort over the
\* non-NaN values, as nlargest does)
RECURSIVE InsertDesc(_, _)
InsertDesc(sorted, e) ==
    IF sorted = << >> THEN << e >>
    ELSE IF Head(sorted).value[1] >= e.value[1]
         THEN << Head(sorted) >> \o InsertDesc(Tail(sorted), e)
         ELSE << e >> \o sorted

RECURSIVE StableSortDesc(_)
StableSortDesc(series) ==
    IF series = << >> THEN << >>
    ELSE InsertDesc(StableSortDesc(DropLast(series, 1)), series[Len(series)])

IsNaN(e) == e.value = None

NotNaN(e) == e.value # None

FirstN(seq, n) == SubSeq(seq, 1, IF n < Len(seq) THEN n ELSE Len(seq))

\* Series.nlargest(n), keep='first': the n largest values in descending
\* order, ties in index order, NaN entries after all the others
nlargest_keep_last(series, n) ==
    LET rev == [x \in DOMAIN series |-> series[Len(series) + 1 - x]]
    IN  IF n <= 0 THEN << >>
        ELSE FirstN(StableSortDesc(SelectSeq(rev, NotNaN)) \o SelectSeq(series, IsNaN), n)

nlargest(series, n) ==
    IF n <= 0 THEN << >>
    ELSE FirstN(StableSortDesc(SelectSeq(series, NotNaN)) \o SelectSeq(series, IsNaN), n)

Index(series) == [x \in DOMAIN series |-> series[x].Character]

\* df[df['Character'].isin(labels)]
IsIn(df, labels) ==
    LET keep(r) == r.Character \in Range(labels)
    IN  SelectSeq(df, keep)

(***************************************************************************)
(* filter_top_characters, order_characters_by_max_appearance and the       *)
(* dropna of plot_character_frequencies.                                   *)
(***************************************************************************)
top_characters_of(max_min_diff, n) == Index(nlargest(max_min_diff, n))

max_appearance_of(df) ==
    LET groups == Groups(df)
    IN  [x \in DOMAIN groups |->
            [Character |-> groups[x].Character,
             value     |-> IF groups[x].values = {} THEN None
                           ELSE Some(Max(groups[x].values))]]

Injective(f) == \A x, y \in DOMAIN f : f[x] = f[y] => x = y

\* the orders sort_values(ascending=False) can give: the present values
\* descending, equal values in any order (the default sort is not stable),
\* and the NaN entries last in index order
SortedOrders_ascending(series) ==
    LET present == SelectSeq(series, NotNaN)
        m == Len(present)
    IN  { Index([x \in 1..m |-> present[p[x]]] \o SelectSeq(series, IsNaN)) :
            p \in { q \in [1..m -> 1..m] :
                      /\ Injective(q)
                      /\ \A x \in 1..(m - 1) :
                            present[q[x]].value[1] <= present[q[x + 1]].value[1] } }

SortedOrders(series) ==
    LET present == SelectSeq(series, NotNaN)
        m == Len(present)
    IN  { Index([x \in 1..m |-> present[p[x]]] \o SelectSeq(series, IsNaN)) :
            p \in { q \in [1..m -> 1..m] :
                      /\ Injective(q)
                      /\ \A x \in 1..(m - 1) :
                            present[q[x]].value[1] >= present[q[x + 1]].value[1] } }

\* set_index('Character').loc[labels].reset_index(): for each label in
\* turn, the rows that carry it, in their order in df
loc_first_row_only(df, labels) ==
    [x \in DOMAIN labels |->
        df[CHOOSE y \in DOMAIN df :
              /\ df[y].Character = labels[x]
              /\ \A z \in 1..(y - 1) : df[z].Character # labels[x]]]

loc(df, labels) ==
    Flatten([x \in DOMAIN labels |->
                LET has(r) == r.Character = labels[x] IN SelectSeq(df, has)])

\* df.dropna(subset=['Frequency'])
dropna(df) ==
    LET present(r) == IsPresent(r.Frequency) IN SelectSeq(df, present)

\* Series.unique(): the values in order of first appearance
RECURSIVE unique(_)
unique(seq) ==
    IF seq = << >> THEN << >>
    ELSE LET rest == unique(DropLast(seq, 1))
             last == seq[Len(seq)]
         IN  IF last \in Range(rest) THEN rest ELSE Append(rest, last)

CharacterColumn(df) == [x \in DOMAIN df |-> df[x].Character]

(***************************************************************************)
(* The files the program can find.                                         *)
(***************************************************************************)
\* top_n of filter_top_characters when the caller gives none, and the
\* value the main block passes
DefaultTopN == 10

TopNs == (1..MaxTopN) \cup {DefaultTopN}

SeqsUpTo(S, n) == UNION { [1..k -> S] : k \in 0..n }

\* the characters file: its lines, or unreadable
VocabularyFiles ==
    { Readable(<< << "a" >>, << "s" >>, << "a", "s" >> >>),
      Readable(<< << "S", " " >>, << >>, << " ", "a", "s" >>, << "A" >> >>),
      Readable(<< << "s" >>, << "a" >>, << "s" >> >>),
      Readable(<< << "H", "a", "r", "r", "y" >>, << "r", "o", "n" >> >>),
      Unreadable }

\* the texts of the end-to-end scenario
ScenarioText1 ==
    << << "H", "a", "r", "r", "y" >>, << "r", "a", "n", "." >>,
       << "H", "a", "r", "r", "y", "'", "s" >>, << "w", "a", "n", "d" >>,
       << "g", "l", "o", "w", "e", "d", "." >> >>

ScenarioText2 ==
    << << "R", "o", "n" >>, << "a", "n", "d" >>,
       << "H", "a", "r", "r", "y" >>, << "t", "a", "l", "k", "e", "d", "." >> >>

\* chunks of the novels of a series
SeriesChunks ==
    { << "A", "'", "s" >>, << "S", "'", "S" >> }

SeriesLibrary ==
    { Readable(t) : t \in SeqsUpTo(SeriesChunks, MaxTextLen) \cup {ScenarioText1, ScenarioText2} }
        \cup {Unreadable}

\* every chunk of at most MaxChunkLen characters in which an apostrophe is
\* followed by s or S, with or without a period that ends the text
ChunkChars == {"a", "s", "S", "'"}

ValidChunk(c) ==
    \A x \in DOMAIN c : c[x] = "'" => (x < Len(c) /\ c[x + 1] \in {"s", "S"})

AllChunks == { c \in SeqsUpTo(ChunkChars, MaxChunkLen) : Len(c) > 0 /\ ValidChunk(c) }

WithFinalPeriod(t) == [x \in DOMAIN t |-> IF x = Len(t) THEN Append(t[x], ".") ELSE t[x]]

AllTexts ==
    LET plain == SeqsUpTo(AllChunks, MaxChunks)
    IN  plain \cup { WithFinalPeriod(t) : t \in plain }

SingleLibrary == SeriesLibrary \cup { Readable(t) : t \in AllTexts }

Library(c) == IF c = "series" THEN SeriesLibrary ELSE SingleLibrary

(***************************************************************************)
(* The state.                                                              *)
(***************************************************************************)
VARIABLES
    pc,                \* "load", "prepare", "filter", "order", "plot", "done",
                       \* "aborted"; "normalize", "normalized" for normalize_word alone
    corpus,            \* which files exist: a "series" of novels or a "single" novel
    novel_titles,      \* the titles zipped with the paths
    target_words,      \* the vocabulary
    texts,             \* the file contents read by prepare_plot_data so far
    printed,           \* the number of "Error reading the file" lines printed
    data,              \* the records appended by prepare_plot_data (plot_df)
    top_n,             \* the argument of filter_top_characters
    max_min_diff,      \* the series of calculate_change_in_frequency
    top_characters,    \* the index of nlargest
    filtered_df,
    sorted_characters,
    ordered_df,
    df_clean,          \* the rows that are drawn
    hue_order,
    word,              \* the argument of normalize_word
    normalized         \* its result

vars ==
    << pc, corpus, novel_titles, target_words, texts, printed, data, top_n, max_min_diff,
       top_characters, filtered_df, sorted_characters, ordered_df, df_clean,
       hue_order, word, normalized >>

Blank ==
    /\ target_words = << >>
    /\ texts = << >>
    /\ printed = 0
    /\ data = << >>
    /\ top_n = 0
    /\ max_min_diff = << >>
    /\ top_characters = << >>
    /\ filtered_df = << >>
    /\ sorted_characters = << >>
    /\ ordered_df = << >>
    /\ df_clean = << >>
    /\ hue_order = << >>
    /\ normalized = << >>

\* the program about to run on a series of novels
Init ==
    /\ pc = "load"
    /\ corpus = "series"
    /\ novel_titles = [x \in 1..MaxNovels |-> x]
    /\ word = << >>
    /\ Blank

\* the program about to run on a single novel
InitSingle ==
    /\ pc = "load"
    /\ corpus = "single"
    /\ novel_titles = << 1 >>
    /\ word = << >>
    /\ Blank

\* normalize_word about to be called on a word
InitNormalize ==
    /\ pc = "normalize"
    /\ corpus = "none"
    /\ novel_titles = << >>
    /\ word \in SeqsUpTo({"a", "A", "s", "S", "'"}, MaxChunkLen)
    /\ Blank

(***************************************************************************)
(* The steps of the main block.                                            *)
(***************************************************************************)
\* target_words = load_target_words(characters_file_path); an exception of
\* open() is not caught
Load ==
    /\ pc = "load"
    /\ \E f \in VocabularyFiles :
          IF f.ok
          THEN /\ target_words' = load_target_words(f.text)
               /\ pc' = "prepare"
          ELSE /\ target_words' = target_words
               /\ pc' = "aborted"
    /\ UNCHANGED << printed, corpus, novel_titles, texts, data, top_n, max_min_diff,
                    top_characters, filtered_df, sorted_characters, ordered_df,
                    df_clean, hue_order, word, normalized >>

\* one iteration of the loop of prepare_plot_data over zip(novel_paths,
\* novel_titles); after the last one the frame is returned
ProcessNovel ==
    /\ pc = "prepare"
    /\ Len(texts) < Len(novel_titles)
    /\ \E content \in Library(corpus) :
          LET title == novel_titles[Len(texts) + 1]
              outcome == process_novel(content, target_words)
          IN  /\ texts' = Append(texts, content)
              /\ printed' = printed + outcome.printed
              /\ IF outcome.raised
                 THEN /\ data' = data
                      /\ pc' = "aborted"
                 ELSE /\ data' = data \o NovelRecords(title, outcome.value, target_words)
                      /\ pc' = IF Len(texts') = Len(novel_titles) THEN "filter" ELSE "prepare"
    /\ UNCHANGED << corpus, novel_titles, target_words, top_n, max_min_diff,
                    top_characters, filtered_df, sorted_characters, ordered_df,
                    df_clean, hue_order, word, normalized >>

\* filtered_df = filter_top_characters(plot_df, top_n); the texts read by
\* process_novel are gone by now
Filter ==
    /\ pc = "filter"
    /\ \E n \in TopNs :
          /\ top_n' = n
          /\ max_min_diff' = calculate_change_in_frequency(data)
          /\ top_characters' = top_characters_of(max_min_diff', n)
          /\ filtered_df' = IsIn(data, top_characters')
    /\ texts' = << >>
    /\ pc' = "order"
    /\ UNCHANGED << printed, corpus, novel_titles, target_words, data, sorted_characters,
                    ordered_df, df_clean, hue_order, word, normalized >>

\* ordered_df = order_characters_by_max_appearance(filtered_df)
Order ==
    /\ pc = "order"
    /\ \E labels \in SortedOrders(max_appearance_of(filtered_df)) :
          /\ sorted_characters' = labels
          /\ ordered_df' = loc(filtered_df, labels)
    /\ pc' = "plot"
    /\ UNCHANGED << printed, corpus, novel_titles, target_words, texts, data, top_n,
                    max_min_diff, top_characters, filtered_df, df_clean,
                    hue_order, word, normalized >>

\* plot_character_frequencies(ordered_df)
Plot ==
    /\ pc = "plot"
    /\ df_clean' = dropna(ordered_df)
    /\ hue_order' = unique(CharacterColumn(df_clean'))
    /\ pc' = "done"
    /\ UNCHANGED << printed, corpus, novel_titles, target_words, texts, data, top_n,
                    max_min_diff, top_characters, filtered_df, sorted_characters,
                    ordered_df, word, normalized >>

\* normalize_word(word)
Normalize ==
    /\ pc = "normalize"
    /\ normalized' = normalize_word(word)
    /\ pc' = "normalized"
    /\ UNCHANGED << printed, corpus, novel_titles, target_words, texts, data, top_n,
                    max_min_diff, top_characters, filtered_df, sorted_characters,
                    ordered_df, df_clean, hue_order, word >>

Next == Load \/ ProcessNovel \/ Filter \/ Order \/ Plot

NextNormalize == Normalize

Spec == Init /\ [][Next]_vars

SpecSingle == InitSingle /\ [][Next]_vars

SpecNormalize == InitNormalize /\ [][NextNormalize]_vars

(***************************************************************************)
(* What the claims speak of, stated on the table and the texts.            *)
(***************************************************************************)
Vocabulary == Len(target_words)

\* the record of the n-th novel and the j-th vocabulary word
Row(n, j) == data[(n - 1) * Vocabulary + j]

\* prepare_plot_data is still running or has just returned
TextsKept == pc \in {"prepare", "filter"}

Prepared == pc \in {"filter", "order", "plot", "done"}

Filtered == pc \in {"order", "plot", "done"}

Ordered == pc \in {"plot", "done"}

\* a chunk without the period that ends its sentence and without one
\* trailing possessive marker, 's or 'S
RefWord(chunk) ==
    LET c == IF EndsWith(chunk, << "." >>) THEN DropLast(chunk, 1) ELSE chunk
    IN  IF EndsWith(lower(c), << "'", "s" >>) THEN DropLast(c, 2) ELSE c

\* the number of standalone alphabetic tokens of text that are w, case and
\* possessive marker ignored
RefCount(text, w) ==
    Cardinality({ x \in DOMAIN text :
                    isalpha(RefWord(text[x])) /\ lower(RefWord(text[x])) = w })

HasUpperPossessive(text, w) ==
    \E x \in DOMAIN text :
        /\ EndsWith(text[x], << "'", "S" >>)
        /\ lower(RefWord(text[x])) = w

\* the present frequencies of a character in a table
RefValues(df, c) ==
    { df[x].Frequency[1] : x \in { y \in DOMAIN df :
          df[y].Character = c /\ df[y].Frequency # None } }

RefDefined(df, c) == RefValues(df, c) # {}

RefSpread(df, c) == Max(RefValues(df, c)) - Min(RefValues(df, c))

RefMax(df, c) == Max(RefValues(df, c))

FirstPos(df, c) == Min({ x \in DOMAIN df : df[x].Character = c })

RowsOf(df, c) == LET has(r) == r.Character = c IN SelectSeq(df, has)

Selected == Range(top_characters)

ValidFrequency(v) == v = None \/ (Len(v) = 1 /\ v[1] >= 1)

(***************************************************************************)
(* C1: for a readable novel, the frequency recorded for a vocabulary word  *)
(* is the number k of its occurrences as a standalone alphabetic token,    *)
(* case and one trailing possessive marker ignored; k = 0 is recorded as   *)
(* absent.                                                                 *)
(***************************************************************************)
C1_FrequencyIsOccurrenceCount ==
    (TextsKept /\ pc # "aborted") =>
        /\ Len(data) = Len(texts) * Vocabulary
        /\ \A n \in DOMAIN texts : texts[n].ok =>
              \A j \in DOMAIN target_words :
                  LET k == RefCount(texts[n].text, target_words[j])
                  IN  Row(n, j).Frequency = IF k = 0 THEN None ELSE Some(k)

\* a word counted twice, once at least in its upper-case possessive form
C1_Witness ==
    /\ pc = "filter"
    /\ \E n \in DOMAIN texts : \E j \in DOMAIN target_words :
          /\ texts[n].ok
          /\ RefCount(texts[n].text, target_words[j]) = 2
          /\ HasUpperPossessive(texts[n].text, target_words[j])
          /\ Row(n, j).Frequency = Some(2)

(***************************************************************************)
(* C2 as claimed: with more than top_n characters, the records returned    *)
(* are those of the top_n characters of largest spread, a tie at the cut   *)
(* being won by the character that comes first in the input table.         *)
(***************************************************************************)
C2_TieByInputOrder ==
    (/\ Filtered
     /\ Cardinality(Characters(data)) > top_n
     /\ \A c \in Characters(data) : RefDefined(data, c)) =>
        /\ Cardinality(Selected) = top_n
        /\ \A c \in Selected : \A d \in Characters(data) \ Selected :
              \/ RefSpread(data, c) > RefSpread(data, d)
              \/ /\ RefSpread(data, c) = RefSpread(data, d)
                 /\ FirstPos(data, c) < FirstPos(data, d)

\* c is ranked before d: a larger spread, or the same spread and the
\* smaller name; a character without a spread comes after all with one
RankedBefore(c, d) ==
    IF RefDefined(data, c) /\ RefDefined(data, d)
    THEN \/ RefSpread(data, c) > RefSpread(data, d)
         \/ RefSpread(data, c) = RefSpread(data, d) /\ StrLess(c, d)
    ELSE IF RefDefined(data, c) = RefDefined(data, d)
         THEN StrLess(c, d)
         ELSE RefDefined(data, c)

(***************************************************************************)
(* C2 as amended: with more than top_n characters, the records returned    *)
(* are those of the top_n characters of largest spread, a tie at the cut   *)
(* being won by the character whose capitalized name sorts first, and      *)
(* characters without a spread ranking last.                               *)
(***************************************************************************)
C2_TieByName ==
    (Filtered /\ Cardinality(Characters(data)) > top_n) =>
        /\ Cardinality(Selected) = top_n
        /\ Selected \subseteq Characters(data)
        /\ \A c \in Selected : \A d \in Characters(data) \ Selected : RankedBefore(c, d)
        /\ \A x \in DOMAIN filtered_df : filtered_df[x].Character \in Selected
        /\ \A c \in Selected : RowsOf(filtered_df, c) = RowsOf(data, c)

\* a tie at the cut between two spreads, which the input order would have
\* decided the other way
C2_Witness ==
    /\ Filtered
    /\ Cardinality(Characters(data)) > top_n
    /\ \E c \in Selected : \E d \in Characters(data) \ Selected :
          /\ RefDefined(data, c)
          /\ RefDefined(data, d)
          /\ RefSpread(data, c) = RefSpread(data, d)
          /\ FirstPos(data, d) < FirstPos(data, c)

(***************************************************************************)
(* C3: an unreadable novel does not abort the run; it gives one record per *)
(* vocabulary word with the frequency absent, and the records of the other *)
(* novels are what their own texts give.                                   *)
(***************************************************************************)
C3_UnreadableNovelTolerated ==
    /\ pc = "aborted" => texts = << >>
    /\ (TextsKept /\ pc # "aborted") =>
          /\ Len(data) = Len(texts) * Vocabulary
          /\ printed = Cardinality({ n \in DOMAIN texts : ~texts[n].ok })
          /\ \A n \in DOMAIN texts : \A j \in DOMAIN target_words :
                /\ Row(n, j).Novel = novel_titles[n]
                /\ Row(n, j).Character = capitalize(target_words[j])
                /\ ~texts[n].ok => Row(n, j).Frequency = None
                /\ texts[n].ok =>
                      LET k == RefCount(texts[n].text, target_words[j])
                      IN  Row(n, j).Frequency = IF k = 0 THEN None ELSE Some(k)

\* the first novel unreadable, the second one read and counted
C3_Witness ==
    /\ pc = "filter"
    /\ printed = 1
    /\ Len(texts) = 2
    /\ ~texts[1].ok
    /\ texts[2].ok
    /\ \A j \in DOMAIN target_words : Row(1, j).Frequency = None
    /\ \E j \in DOMAIN target_words : Row(2, j).Frequency # None

(***************************************************************************)
(* C4 as claimed: normalize_word removes a trailing possessive marker      *)
(* whatever its case ('s or 'S) and lower-cases the rest.                  *)
(***************************************************************************)
ClaimedNormalization(w) ==
    IF EndsWith(lower(w), << "'", "s" >>) THEN DropLast(lower(w), 2) ELSE lower(w)

C4_PossessiveAnyCase ==
    pc = "normalized" => normalized = ClaimedNormalization(word)

(***************************************************************************)
(* C5 as claimed: in the ordered table, a character that comes before      *)
(* another has a strictly larger maximum frequency.                        *)
(***************************************************************************)
OrderedCharacters == unique(CharacterColumn(ordered_df))

C5_StrictlyDescending ==
    Ordered =>
        \A x, y \in DOMAIN OrderedCharacters :
            (/\ x < y
             /\ RefDefined(ordered_df, OrderedCharacters[x])
             /\ RefDefined(ordered_df, OrderedCharacters[y])) =>
                RefMax(ordered_df, OrderedCharacters[x]) > RefMax(ordered_df, OrderedCharacters[y])

(***************************************************************************)
(* C5 as amended: in the ordered table, a character that comes before      *)
(* another has a maximum frequency at least as large (equal maxima may     *)
(* follow each other), and the characters absent from every novel come     *)
(* after all the others.                                                   *)
(***************************************************************************)
C5_Descending ==
    Ordered =>
        \A x, y \in DOMAIN OrderedCharacters :
            x < y =>
                LET a == OrderedCharacters[x]
                    b == OrderedCharacters[y]
                IN  /\ RefDefined(ordered_df, b) => RefDefined(ordered_df, a)
                    /\ (RefDefined(ordered_df, a) /\ RefDefined(ordered_df, b)) =>
                          RefMax(ordered_df, a) >= RefMax(ordered_df, b)

\* three characters ordered: two of equal maximum, and one of a smaller
\* maximum or absent everywhere behind another
C5_Witness ==
    /\ Ordered
    /\ Len(OrderedCharacters) = 3
    /\ \E x \in 1..2 :
          /\ RefDefined(ordered_df, OrderedCharacters[x + 1])
          /\ RefMax(ordered_df, OrderedCharacters[x]) = RefMax(ordered_df, OrderedCharacters[x + 1])
    /\ \E x \in 1..2 :
          /\ RefDefined(ordered_df, OrderedCharacters[x])
          /\ \/ ~RefDefined(ordered_df, OrderedCharacters[x + 1])
             \/ RefMax(ordered_df, OrderedCharacters[x]) > RefMax(ordered_df, OrderedCharacters[x + 1])

C7_TableSize ==
    /\ Prepared =>
          /\ Len(data) = Len(novel_titles) * Vocabulary
          /\ \A n \in DOMAIN novel_titles : \A j \in DOMAIN target_words :
                /\ Row(n, j).Novel = novel_titles[n]
                /\ Row(n, j).Character = capitalize(target_words[j])
    /\ Filtered =>
          /\ \A x \in DOMAIN filtered_df : filtered_df[x].Character \in Selected
          /\ LET sel(r) == r.Character \in Selected
             IN  filtered_df = SelectSeq(data, sel)

\* a selection that leaves records out, from a table with absent values
C7_Witness ==
    /\ pc = "order"
    /\ Len(data) = Len(novel_titles) * Vocabulary
    /\ \E x \in DOMAIN data : data[x].Frequency = None
    /\ filtered_df # << >>
    /\ Len(filtered_df) < Len(data)

(***************************************************************************)
(* C8: for the texts "Harry ran. Harry's wand glowed." and "Ron and Harry  *)
(* talked." and the vocabulary harry, ron, prepare_plot_data gives         *)
(* (1, Harry, 2), (1, Ron, absent), (2, Harry, 1), (2, Ron, 1).            *)
(***************************************************************************)
Scenario ==
    /\ pc = "filter"
    /\ texts = << Readable(ScenarioText1), Readable(ScenarioText2) >>
    /\ target_words = << << "h", "a", "r", "r", "y" >>, << "r", "o", "n" >> >>

ScenarioTable ==
    << [Novel |-> 1, Character |-> << "H", "a", "r", "r", "y" >>, Frequency |-> Some(2)],
       [Novel |-> 1, Character |-> << "R", "o", "n" >>, Frequency |-> None],
       [Novel |-> 2, Character |-> << "H", "a", "r", "r", "y" >>, Frequency |-> Some(1)],
       [Novel |-> 2, Character |-> << "R", "o", "n" >>, Frequency |-> Some(1)] >>

C8_EndToEnd == Scenario => data = ScenarioTable

C8_Witness == Scenario /\ data = ScenarioTable

(***************************************************************************)
(* C9: the spread of a character is max - min over the novels where its    *)
(* frequency is present: 0 when it is present in one novel only, undefined *)
(* when it is absent everywhere, and then ranked below every character     *)
(* with a spread.                                                          *)
(***************************************************************************)
PresentRows(df, c) == { x \in DOMAIN df : df[x].Character = c /\ df[x].Frequency # None }

C9_SpreadOverPresent ==
    Filtered =>
        /\ { max_min_diff[x].Character : x \in DOMAIN max_min_diff } = Characters(data)
        /\ \A x \in DOMAIN max_min_diff :
              LET c == max_min_diff[x].Character
              IN  /\ PresentRows(data, c) = {} => max_min_diff[x].value = None
                  /\ PresentRows(data, c) # {} =>
                        max_min_diff[x].value = Some(RefSpread(data, c))
                  /\ Cardinality(PresentRows(data, c)) = 1 => max_min_diff[x].value = Some(0)
                  /\ (PresentRows(data, c) = {} /\ c \in Selected) =>
                        \A d \in Characters(data) : RefDefined(data, d) => d \in Selected

\* a character counted twice in its only novel, and one without any
\* occurrence left out of the selection
C9_Witness ==
    /\ Filtered
    /\ \E c \in Characters(data) :
          /\ Cardinality(PresentRows(data, c)) = 1
          /\ RefMax(data, c) = 2
    /\ \E c \in Characters(data) \ Selected : ~RefDefined(data, c)

(***************************************************************************)
(* C10: order_characters_by_max_appearance only moves records: the ordered *)
(* table has the records of the filtered table, each as often, those of a  *)
(* character next to each other and in their order in the filtered table.  *)
(***************************************************************************)
Occurrences(df, r) == Cardinality({ x \in DOMAIN df : df[x] = r })

C10_OrderIsPermutation ==
    Ordered =>
        /\ Len(ordered_df) = Len(filtered_df)
        /\ \A r \in Range(filtered_df) \cup Range(ordered_df) :
              Occurrences(ordered_df, r) = Occurrences(filtered_df, r)
        /\ \A x, y, z \in DOMAIN ordered_df :
              (x < y /\ y < z /\ ordered_df[x].Character = ordered_df[z].Character) =>
                  ordered_df[y].Character = ordered_df[x].Character
        /\ \A c \in Characters(filtered_df) :
              RowsOf(ordered_df, c) = RowsOf(filtered_df, c)

\* rows moved, among them rows with an absent frequency
C10_Witness ==
    /\ Ordered
    /\ ordered_df # filtered_df
    /\ \E x \in DOMAIN ordered_df : ordered_df[x].Frequency = None
    /\ \E x \in DOMAIN ordered_df : ordered_df[x].Frequency # None

====
